---- MODULE Spec2Model ----
(***************************************************************************)
(* Model of iotedge_config_cli (src/main.rs): the device-tree walkers, the *)
(* IoT Hub create / delete workflows, the certificate workflow of main,    *)
(* and the FileManager log shared by the concurrent calls of a wave.       *)
(***************************************************************************)
EXTENDS Bags, FiniteSets, Integers, Sequences, TLC

\* Largest tree (in nodes) a workflow run is started on.
MaxNodes == 3

\* Largest tree (in nodes) the two tree walkers are applied to.
MaxWalkNodes == 4

\* Largest number of print / print_verbose calls made on a FileManager alone.
MaxLogCalls == 3

VARIABLES
    tree,           \* config.root_device: [device_id, children]
    verbose,        \* FileManager.verbose
    workflow,       \* entry point being run: "walk", "create", "delete", "certs"
    wpc,            \* position of the entry point's async fn
    devices,        \* flatten_devices(&config.root_device) held by the workflow
    relationships,  \* get_relationships(&config.root_device) held by create_devices
    task,           \* the futures handed to join_all, by position in the wave
    lock,           \* holder of FileManager.log_file's Mutex: 0 free, i > 0 task i
    log,            \* bag of the lines appended to the log file
    console,        \* bag of the lines printed with println!
    calls,          \* bag of external commands spawned
    registry,       \* device identities present in the hub
    exited,         \* the commands that have exited, each with its exit status
    created,        \* what the join_all over the create futures produced
    io_failed,      \* some write_all, create_dir_all or spawn returned an error
    root,           \* make_root_cert: what its openssl call exited with
    result,         \* what the entry point returned: "none", "Ok", "Err", "Panic"
    twin            \* a second FileManager, made with the other verbosity and
                    \* given the same print calls: [console, log, calls]

vars == <<tree, verbose, workflow, wpc, devices, relationships, task, lock,
          log, console, calls, registry, exited, created, io_failed, root,
          result, twin>>

----------------------------------------------------------------------------
(* DeviceConfig trees                                                      *)

\* Sequences of t followed by a forest f.
Cons(t, f) == <<t>> \o f

RECURSIVE TreesOn(_)
RECURSIVE ForestsOn(_)
\* Every DeviceConfig whose nodes carry exactly the ids in S, once each.
TreesOn(S) ==
    UNION { { [device_id |-> r, children |-> f] : f \in ForestsOn(S \ {r}) }
            : r \in S }

\* Every ordered list of sibling DeviceConfigs carrying exactly the ids in S.
ForestsOn(S) ==
    IF S = {} THEN { <<>> }
    ELSE UNION { { Cons(t, f) : t \in TreesOn(A), f \in ForestsOn(S \ A) }
                 : A \in (SUBSET S) \ { {} } }

\* The trees the walkers are applied to: every shape and every labelling.
WalkTrees == UNION { TreesOn(S) : S \in (SUBSET (1 .. MaxWalkNodes)) \ { {} } }

RECURSIVE ShapesOn(_, _)
RECURSIVE ForestShapesOn(_, _)
\* Every tree shape of n nodes, ids lo .. lo+n-1 given in configuration-file
\* order (the workflows never compare ids, so one labelling per shape).
ShapesOn(lo, n) ==
    { [device_id |-> lo, children |-> f] : f \in ForestShapesOn(lo + 1, n - 1) }

ForestShapesOn(lo, n) ==
    IF n = 0 THEN { <<>> }
    ELSE UNION { { Cons(t, f) : t \in ShapesOn(lo, k),
                                f \in ForestShapesOn(lo + k, n - k) }
                 : k \in 1 .. n }

\* The trees create_devices is run on: every shape of up to MaxNodes nodes.
RunTrees == UNION { ShapesOn(1, n) : n \in 1 .. MaxNodes }

\* The tree of n nodes whose root has every other node as a child.
StarOn(n) ==
    [device_id |-> 1,
     children |-> [k \in 1 .. (n - 1) |-> [device_id |-> k + 1, children |-> <<>>]]]

\* The trees delete_devices and main's certificate calls are run on: they
\* read the tree through flatten_devices alone, so one tree of each size.
FlatRunTrees == { StarOn(n) : n \in 1 .. MaxNodes }

----------------------------------------------------------------------------
(* Tree walkers                                                            *)

RECURSIVE flatten_devices_postorder(_)
\* A flattening that pushes the node's id after its children's.
flatten_devices_postorder(device) ==
    LET RECURSIVE loop(_, _)
        loop(res, i) ==
            IF i > Len(device.children) THEN Append(res, device.device_id)
            ELSE loop(res \o flatten_devices_postorder(device.children[i]), i + 1)
    IN  loop(<<>>, 1)

RECURSIVE flatten_devices(_)
\* fn flatten_devices: the node's id, then each child's flattening in order.
flatten_devices(device) ==
    LET RECURSIVE loop(_, _)
        loop(res, i) ==
            IF i > Len(device.children) THEN res
            ELSE loop(res \o flatten_devices(device.children[i]), i + 1)
    IN  loop(<<device.device_id>>, 1)

RECURSIVE get_relationships_children_first(_)
\* A walk that recurses into a child before pushing the pair for it.
get_relationships_children_first(device) ==
    LET RECURSIVE loop(_, _)
        loop(res, i) ==
            IF i > Len(device.children) THEN res
            ELSE loop(Append(res \o get_relationships_children_first(device.children[i]),
                             <<device.device_id, device.children[i].device_id>>),
                      i + 1)
    IN  loop(<<>>, 1)

RECURSIVE get_relationships(_)
\* fn get_relationships: for each child, the pair (device, child) and then
\* the child's own relationships.
get_relationships(device) ==
    LET RECURSIVE loop(_, _)
        loop(res, i) ==
            IF i > Len(device.children) THEN res
            ELSE loop(Append(res, <<device.device_id, device.children[i].device_id>>)
                        \o get_relationships(device.children[i]),
                      i + 1)
    IN  loop(<<>>, 1)

----------------------------------------------------------------------------
(* Captured output of the external commands: byte strings                  *)

\* "ErrorCode:DeviceNotFound;" as bytes.
DeviceNotFound == <<69, 114, 114, 111, 114, 67, 111, 100, 101, 58, 68, 101, 118, 105, 99, 101, 78, 111, 116, 70, 111, 117, 110, 100, 59>>

\* The same text cut before its final ';'.
DeviceNotFoundCut == SubSeq(DeviceNotFound, 1, Len(DeviceNotFound) - 1)

\* The same text with a byte that is not valid UTF-8 in the middle.
DeviceNotFoundSplit ==
    SubSeq(DeviceNotFound, 1, 10) \o <<255>> \o SubSeq(DeviceNotFound, 11, Len(DeviceNotFound))

\* "az: " and "\n" as bytes, the text around a diagnostic.
AzPrefix == <<97, 122, 58, 32>>

Newline == <<10>>

\* String::from_utf8_lossy on the bytes used here: ASCII is kept, a byte that
\* cannot start a UTF-8 sequence becomes U+FFFD.
from_utf8_lossy(bytes) ==
    [k \in 1 .. Len(bytes) |-> IF bytes[k] < 128 THEN bytes[k] ELSE 65533]

\* str::contains: pat occurs in s as a contiguous substring.
contains(s, pat) ==
    \E k \in 1 .. (Len(s) - Len(pat) + 1) : SubSeq(s, k, k + Len(pat) - 1) = pat

\* `{"deviceId":"` and `"}`, the frame of the payload az prints on create.
PayloadOpen == <<123, 34, 100, 101, 118, 105, 99, 101, 73, 100, 34, 58, 34>>

PayloadClose == <<34, 125>>

\* The decimal digit of a device id.
IdByte(id) == 48 + id

\* serde_json::from_slice::<CreateResponse>: succeeds on a complete payload
\* carrying a device id.
parse_CreateResponse(stdout) ==
    LET n == Len(stdout)
        o == Len(PayloadOpen)
        c == Len(PayloadClose)
    IN  /\ n > o + c
        /\ SubSeq(stdout, 1, o) = PayloadOpen
        /\ SubSeq(stdout, n - c + 1, n) = PayloadClose

\* What `az iot hub device-identity create` can exit with.
CreateOutcomes(id) ==
    { [status |-> "success", stdout |-> PayloadOpen \o <<IdByte(id)>> \o PayloadClose,
       stderr |-> <<>>],
      [status |-> "success", stdout |-> PayloadOpen \o <<IdByte(id)>>, stderr |-> <<>>],
      [status |-> "failure", stdout |-> <<>>, stderr |-> AzPrefix \o Newline] }

\* What `az iot hub device-identity parent set` can exit with.
LinkOutcomes ==
    { [status |-> "success", stdout |-> <<>>, stderr |-> <<>>],
      [status |-> "failure", stdout |-> <<>>, stderr |-> AzPrefix \o Newline] }

\* What `az iot hub device-identity delete` can write to stderr.
DeleteStderr ==
    { AzPrefix \o DeviceNotFound \o Newline,
      AzPrefix \o DeviceNotFoundCut \o Newline,
      AzPrefix \o DeviceNotFoundSplit \o Newline }

\* What `az iot hub device-identity delete` can exit with.
DeleteOutcomes ==
    { [status |-> "success", stdout |-> <<>>, stderr |-> <<>>] } \cup
    { [status |-> "failure", stdout |-> <<>>, stderr |-> e] : e \in DeleteStderr }

\* What `openssl req` can exit with.
CertOutcomes ==
    { [status |-> "success", stdout |-> <<>>, stderr |-> <<>>],
      [status |-> "failure", stdout |-> <<>>, stderr |-> AzPrefix \o Newline] }

----------------------------------------------------------------------------
(* usize arithmetic: 64 bits held as four 16-bit limbs, lowest first       *)

UsizeLimbs == 4

\* A count (below 2^31) as a usize.
to_usize(n) ==
    [k \in 1 .. UsizeLimbs |->
        IF k = 1 THEN n % 65536 ELSE IF k = 2 THEN (n \div 65536) % 65536 ELSE 0]

RECURSIVE borrow_into(_, _, _)
\* The borrow limb k of a - b receives from the limbs below it.
borrow_into(a, b, k) ==
    IF k = 1 THEN 0
    ELSE IF a[k - 1] - b[k - 1] - borrow_into(a, b, k - 1) < 0 THEN 1 ELSE 0

\* usize `a - b` when overflow checks are off: the difference modulo 2^64.
wrapping_sub(a, b) ==
    [k \in 1 .. UsizeLimbs |-> (a[k] - b[k] - borrow_into(a, b, k)) % 65536]

\* usize `a - b` overflows exactly when a < b.
sub_overflows(a, b) == borrow_into(a, b, UsizeLimbs + 1) = 1

----------------------------------------------------------------------------
(* FileManager and the futures of a wave                                   *)

\* A line whose format string leaves the captured stderr out.
Line_without_stderr(text, key, stdout, stderr) ==
    [text |-> text, key |-> key, stdout |-> stdout, stderr |-> <<>>]

\* A line of text: its fixed wording, what it is about, and the captured
\* output formatted into it.
Line(text, key, stdout, stderr) ==
    [text |-> text, key |-> key, stdout |-> stdout, stderr |-> stderr]

\* The lines of S, each once more, added to what a channel has received.
PutAll(channel, S) == channel (+) SetToBag(S)

\* A print_verbose that prints whatever the verbosity.
VerbosePrintln_always(line) == {line}

\* print_verbose's `if self.verbose { println!(..) }`.
VerbosePrintln(line) == IF verbose THEN {line} ELSE {}

\* A future of a wave after join_all's first poll: it has run up to the
\* lock().await of its first print_verbose.
NewTask(key) ==
    [key |-> key, pc |-> "lock1", status |-> "none", stdout |-> <<>>,
     stderr |-> <<>>, ret |-> "none", why |-> "none"]

\* A wave that leaves the last element of keys without a future.
Wave_skip_last(keys) ==
    [i \in 1 .. (IF Len(keys) > 1 THEN Len(keys) - 1 ELSE Len(keys)) |-> NewTask(keys[i])]

\* The futures of join_all over one future per element of keys, each at its
\* first lock().await.
Wave(keys) == [i \in 1 .. Len(keys) |-> NewTask(keys[i])]

\* The futures of t that wait in write_log's `log_file.lock().await`.
Waiters(t) == { j \in DOMAIN t : t[j].pc \in {"lock1", "lock2", "lock3"} }

\* lock().await returns in future j: it goes on to write_all.
Granted(t, j) ==
    [t EXCEPT ![j].pc = CASE t[j].pc = "lock1" -> "write1"
                          [] t[j].pc = "lock2" -> "write2"
                          [] t[j].pc = "lock3" -> "write3"]

\* A lock().await that returns at once, whoever holds the mutex.
Arrive_unlocked(t, i) == lock' = i /\ task' = Granted(t, i)

\* Future i has reached a lock().await (t is the wave with i there): it takes
\* the mutex at once when it is free and waits otherwise.
Arrive(t, i) ==
    IF lock = 0
    THEN lock' = i /\ task' = Granted(t, i)
    ELSE lock' = lock /\ task' = t

\* The MutexGuard of write_log is dropped (t is the wave after the holder's
\* step): the mutex passes to a waiting future, if there is one.
Release(t) ==
    IF Waiters(t) = {}
    THEN lock' = 0 /\ task' = t
    ELSE \E j \in Waiters(t) : lock' = j /\ task' = Granted(t, j)

\* join_all's first poll runs each future in turn up to its first
\* lock().await: the first takes the mutex, the others wait.
StartWave(keys) ==
    IF Len(keys) = 0
    THEN lock' = 0 /\ task' = Wave(keys)
    ELSE lock' = 1 /\ task' = Granted(Wave(keys), 1)

\* No future is being joined.
NoWave == <<>>

\* Future i returned r, for the reason why, and dropped what it captured.
Returned(i, r, why) ==
    [task EXCEPT ![i] = [key |-> task[i].key, pc |-> "done", status |-> "none",
                         stdout |-> <<>>, stderr |-> <<>>, ret |-> r, why |-> why]]

\* A join in the manner of try_join_all: ready as soon as a future has
\* returned an error, whatever the others are doing.
JoinReady_try ==
    \/ \A i \in DOMAIN task : task[i].pc = "done"
    \/ \E i \in DOMAIN task : task[i].ret = "Err"

\* A join that returns while a future is still pending.
JoinReady_first == \E i \in DOMAIN task : task[i].pc = "done"

\* join_all(..).await is ready: every future of the wave has returned.
JoinReady == \A i \in DOMAIN task : task[i].pc = "done"

\* The outcomes of write_all on the log file.
WriteOutcomes == {"written", "io_error"}

\* The outcomes of Command::output's spawn and of create_dir_all.
IoOutcomes == {"ok", "io_error"}

----------------------------------------------------------------------------
(* IoTHubDeviceManager::create_devices                                     *)

CreateCall(id) == [op |-> "create", key |-> <<id>>]

LinkCall(pair) == [op |-> "link", key |-> pair]

\* create_devices up to join_all's first poll of the create futures.
create_devices_begin ==
    /\ workflow = "create" /\ wpc = "Idle" /\ lock = 0
    /\ devices' = flatten_devices(tree)
    /\ LET line == Line("Creating devices in hub", <<Len(devices')>>, <<>>, <<>>)
       IN  \E w \in WriteOutcomes :
             IF w = "written"
             THEN /\ log' = PutAll(log, {line})
                  /\ StartWave(devices')
                  /\ console' = PutAll(PutAll(console, {line}),
                        UNION { VerbosePrintln(Line("Creating device", <<devices'[i]>>, <<>>, <<>>))
                                : i \in 1 .. Len(devices') })
                  /\ wpc' = "CreatingIdentities"
                  /\ result' = result
             ELSE /\ console' = PutAll(console, {line})
                  /\ wpc' = "Done"
                  /\ result' = "Err"
                  /\ UNCHANGED <<log, task, lock>>
    /\ UNCHANGED <<twin, tree, verbose, workflow, relationships, calls,
                   registry, root, created, exited>>
    /\ io_failed' = (io_failed \/ result' = "Err")

\* create_device_identity from the end of its first write_log to the
\* output().await of the spawned command.
create_device_identity_spawn(i) ==
    /\ wpc = "CreatingIdentities" /\ task[i].pc = "write1" /\ lock = i
    /\ \E w \in WriteOutcomes, sp \in IoOutcomes :
         IF w = "written"
         THEN /\ log' = PutAll(log, {Line("Creating device", <<task[i].key>>, <<>>, <<>>)})
              /\ IF sp = "ok"
                 THEN /\ calls' = calls (+) SetToBag({CreateCall(task[i].key)})
                      /\ Release([task EXCEPT ![i].pc = "running"])
                 ELSE /\ calls' = calls
                      /\ Release(Returned(i, "Err", "io"))
         ELSE /\ sp = "ok"
              /\ Release(Returned(i, "Err", "io"))
              /\ UNCHANGED <<log, calls>>
    /\ UNCHANGED <<twin, tree, verbose, workflow, wpc, devices, relationships,
                   console, registry, root, result, created, exited>>
    /\ io_failed' = (io_failed \/ task'[i].why = "io")

\* create_device_identity from the exit of the command to the lock().await
\* of the print_verbose of its branch.
create_device_identity_exit(i) ==
    /\ wpc = "CreatingIdentities" /\ task[i].pc = "running"
    /\ \E out \in CreateOutcomes(task[i].key) :
         /\ exited' = exited \cup {[call |-> CreateCall(task[i].key), status |-> out.status]}
         /\ Arrive([task EXCEPT ![i].pc = "lock2", ![i].status = out.status,
                                 ![i].stdout = out.stdout, ![i].stderr = out.stderr], i)
         /\ registry' = IF out.status = "success"
                        THEN registry \cup {task[i].key} ELSE registry
         /\ console' = PutAll(console, VerbosePrintln(
                IF out.status = "success"
                THEN Line("Successfully created", <<task[i].key>>, <<>>, <<>>)
                ELSE Line("Failed to create", <<task[i].key>>,
                          from_utf8_lossy(out.stdout), from_utf8_lossy(out.stderr))))
    /\ UNCHANGED <<twin, tree, verbose, workflow, wpc, devices, relationships,
                   log, calls, root, result, created, io_failed>>

\* A success branch that returns a record whatever the payload.
created_device_unchecked(stdout) == [ret |-> "Ok", why |-> "none"]

\* create_device_identity's success branch after its log write:
\* `serde_json::from_slice(&command.stdout)?` and `Ok(created_device)`.
created_device(stdout) ==
    IF parse_CreateResponse(stdout)
    THEN [ret |-> "Ok", why |-> "none"]
    ELSE [ret |-> "Err", why |-> "parse"]

\* create_device_identity from the end of its second write_log to its return.
create_device_identity_return(i) ==
    /\ wpc = "CreatingIdentities" /\ task[i].pc = "write2" /\ lock = i
    /\ \E w \in WriteOutcomes :
         IF w = "io_error"
         THEN /\ Release(Returned(i, "Err", "io"))
              /\ log' = log
         ELSE IF task[i].status = "success"
         THEN /\ log' = PutAll(log, {Line("Successfully created", <<task[i].key>>, <<>>, <<>>)})
              /\ Release(Returned(i, created_device(task[i].stdout).ret,
                                   created_device(task[i].stdout).why))
         ELSE /\ log' = PutAll(log, {Line("Failed to create", <<task[i].key>>,
                                       from_utf8_lossy(task[i].stdout),
                                       from_utf8_lossy(task[i].stderr))})
              /\ Release(Returned(i, "Err", "exit"))
    /\ UNCHANGED <<twin, tree, verbose, workflow, wpc, devices, relationships,
                   console, calls, registry, root, result, created, exited>>
    /\ io_failed' = (io_failed \/ task'[i].why = "io")

\* A collect that lets the errors of the create wave pass.
CreateCollectFails_never == FALSE

\* create_devices, the create wave: `.collect::<Result<Vec<_>>>()?` returns early, some future
\* returned Err.
CreateCollectFails == \E i \in DOMAIN task : task[i].ret = "Err"

\* create_devices from the first join_all being ready to the first poll of
\* the link futures (or to the early return of `?`).
create_devices_join ==
    /\ wpc = "CreatingIdentities" /\ JoinReady /\ lock = 0
    /\ IF CreateCollectFails
       THEN /\ wpc' = "Done"
            /\ result' = "Err"
            /\ UNCHANGED <<relationships, log, console, task, lock>>
       ELSE /\ relationships' = get_relationships(tree)
            /\ LET line == Line("Created all devices. Adding parent-child relationships.",
                                <<Len(relationships')>>, <<>>, <<>>)
               IN  \E w \in WriteOutcomes :
                     IF w = "written"
                     THEN /\ log' = PutAll(log, {line})
                          /\ StartWave(relationships')
                          /\ console' = PutAll(PutAll(console, {line}),
                                UNION { VerbosePrintln(Line("Adding as child of parent",
                                                            relationships'[i], <<>>, <<>>))
                                        : i \in 1 .. Len(relationships') })
                          /\ wpc' = "LinkingParents"
                          /\ result' = result
                     ELSE /\ console' = PutAll(console, {line})
                          /\ wpc' = "Done"
                          /\ result' = "Err"
                          /\ UNCHANGED <<log, task, lock>>
    /\ created' = [i \in DOMAIN task |->
                        [key |-> task[i].key, ret |-> task[i].ret, why |-> task[i].why]]
    /\ UNCHANGED <<twin, tree, verbose, workflow, devices, calls, registry, root, exited>>
    /\ io_failed' = (io_failed \/ (result' = "Err" /\ ~CreateCollectFails))

\* create_parent_child_relationship from the end of its first write_log to
\* the output().await of the spawned command.
create_parent_child_relationship_spawn(i) ==
    /\ wpc = "LinkingParents" /\ task[i].pc = "write1" /\ lock = i
    /\ \E w \in WriteOutcomes, sp \in IoOutcomes :
         IF w = "written"
         THEN /\ log' = PutAll(log, {Line("Adding as child of parent", task[i].key, <<>>, <<>>)})
              /\ IF sp = "ok"
                 THEN /\ calls' = calls (+) SetToBag({LinkCall(task[i].key)})
                      /\ Release([task EXCEPT ![i].pc = "running"])
                 ELSE /\ calls' = calls
                      /\ Release(Returned(i, "Err", "io"))
         ELSE /\ sp = "ok"
              /\ Release(Returned(i, "Err", "io"))
              /\ UNCHANGED <<log, calls>>
    /\ UNCHANGED <<twin, tree, verbose, workflow, wpc, devices, relationships,
                   console, registry, root, result, created, exited>>
    /\ io_failed' = (io_failed \/ task'[i].why = "io")

\* create_parent_child_relationship from the exit of the command to the
\* lock().await of the print_verbose of its branch.
create_parent_child_relationship_exit(i) ==
    /\ wpc = "LinkingParents" /\ task[i].pc = "running"
    /\ \E out \in LinkOutcomes :
         /\ exited' = exited \cup {[call |-> LinkCall(task[i].key), status |-> out.status]}
         /\ Arrive([task EXCEPT ![i].pc = "lock2", ![i].status = out.status,
                                 ![i].stdout = out.stdout, ![i].stderr = out.stderr], i)
         /\ console' = PutAll(console, VerbosePrintln(
                IF out.status = "success"
                THEN Line("Successfully added as child of parent", task[i].key, <<>>, <<>>)
                ELSE Line("Failed to add as child of parent", task[i].key,
                          from_utf8_lossy(out.stdout), from_utf8_lossy(out.stderr))))
    /\ UNCHANGED <<twin, tree, verbose, workflow, wpc, devices, relationships,
                   log, calls, registry, root, result, created, io_failed>>

\* create_parent_child_relationship from the end of its second write_log to
\* its return.
create_parent_child_relationship_return(i) ==
    /\ wpc = "LinkingParents" /\ task[i].pc = "write2" /\ lock = i
    /\ \E w \in WriteOutcomes :
         IF w = "io_error"
         THEN /\ Release(Returned(i, "Err", "io"))
              /\ log' = log
         ELSE IF task[i].status = "success"
         THEN /\ log' = PutAll(log, {Line("Successfully added as child of parent",
                                       task[i].key, <<>>, <<>>)})
              /\ Release(Returned(i, "Ok", "none"))
         ELSE /\ log' = PutAll(log, {Line("Failed to add as child of parent", task[i].key,
                                       from_utf8_lossy(task[i].stdout),
                                       from_utf8_lossy(task[i].stderr))})
              /\ Release(Returned(i, "Err", "exit"))
    /\ UNCHANGED <<twin, tree, verbose, workflow, wpc, devices, relationships,
                   console, calls, registry, root, result, created, exited>>
    /\ io_failed' = (io_failed \/ task'[i].why = "io")

\* A collect that lets the errors of the link wave pass.
LinkCollectFails_never == FALSE

\* create_devices, the link wave: `.collect::<Result<Vec<_>>>()?` returns early, some future
\* returned Err.
LinkCollectFails == \E i \in DOMAIN task : task[i].ret = "Err"

\* create_devices from the second join_all being ready to its return.
create_devices_finish ==
    /\ wpc = "LinkingParents" /\ JoinReady /\ lock = 0
    /\ wpc' = "Done"
    /\ result' = IF LinkCollectFails THEN "Err" ELSE "Ok"
    /\ UNCHANGED <<twin, tree, verbose, workflow, devices, relationships, task, lock,
                   log, console, calls, registry, root, created, exited, io_failed>>

----------------------------------------------------------------------------
(* IoTHubDeviceManager::delete_devices                                     *)

DeleteCall(id) == [op |-> "delete", key |-> <<id>>]

\* A condition that looks at the exit status alone.
delete_succeeded_status_only(status, stderr) == status = "success"

\* delete_device_identity's condition: the exit status is success or the
\* captured stderr contains "ErrorCode:DeviceNotFound;".
delete_succeeded(status, stderr) ==
    \/ status = "success"
    \/ contains(from_utf8_lossy(stderr), DeviceNotFound)

\* delete_devices up to join_all's first poll of the delete futures.
delete_devices_begin ==
    /\ workflow = "delete" /\ wpc = "Idle" /\ lock = 0
    /\ devices' = flatten_devices(tree)
    /\ LET line == Line("Deleting devices from hub", <<Len(devices')>>, <<>>, <<>>)
       IN  \E w \in WriteOutcomes :
             IF w = "written"
             THEN /\ log' = PutAll(log, {line})
                  /\ StartWave(devices')
                  /\ console' = PutAll(PutAll(console, {line}),
                        UNION { VerbosePrintln(Line("Deleting device", <<devices'[i]>>, <<>>, <<>>))
                                : i \in 1 .. Len(devices') })
                  /\ wpc' = "DeletingIdentities"
                  /\ result' = result
             ELSE /\ console' = PutAll(console, {line})
                  /\ wpc' = "Done"
                  /\ result' = "Err"
                  /\ UNCHANGED <<log, task, lock>>
    /\ UNCHANGED <<twin, tree, verbose, workflow, relationships, calls,
                   registry, root, created, exited>>
    /\ io_failed' = (io_failed \/ result' = "Err")

\* delete_device_identity from the end of its first write_log to the
\* output().await of the spawned command.
delete_device_identity_spawn(i) ==
    /\ wpc = "DeletingIdentities" /\ task[i].pc = "write1" /\ lock = i
    /\ \E w \in WriteOutcomes, sp \in IoOutcomes :
         IF w = "written"
         THEN /\ log' = PutAll(log, {Line("Deleting device", <<task[i].key>>, <<>>, <<>>)})
              /\ IF sp = "ok"
                 THEN /\ calls' = calls (+) SetToBag({DeleteCall(task[i].key)})
                      /\ Release([task EXCEPT ![i].pc = "running"])
                 ELSE /\ calls' = calls
                      /\ Release(Returned(i, "Err", "io"))
         ELSE /\ sp = "ok"
              /\ Release(Returned(i, "Err", "io"))
              /\ UNCHANGED <<log, calls>>
    /\ UNCHANGED <<twin, tree, verbose, workflow, wpc, devices, relationships,
                   console, registry, root, result, created, exited>>
    /\ io_failed' = (io_failed \/ task'[i].why = "io")

\* delete_device_identity from the exit of the command to the lock().await
\* of the print_verbose of its branch.
delete_device_identity_exit(i) ==
    /\ wpc = "DeletingIdentities" /\ task[i].pc = "running"
    /\ \E out \in DeleteOutcomes :
         /\ exited' = exited \cup {[call |-> DeleteCall(task[i].key), status |-> out.status]}
         /\ Arrive([task EXCEPT ![i].pc = "lock2", ![i].status = out.status,
                                 ![i].stdout = out.stdout, ![i].stderr = out.stderr], i)
         /\ registry' = IF out.status = "success"
                        THEN registry \ {task[i].key} ELSE registry
         /\ console' = PutAll(console, VerbosePrintln(
                IF delete_succeeded(out.status, out.stderr)
                THEN Line("Successfully deleted", <<task[i].key>>, <<>>, <<>>)
                ELSE Line("Failed to delete", <<task[i].key>>,
                          from_utf8_lossy(out.stdout), from_utf8_lossy(out.stderr))))
    /\ UNCHANGED <<twin, tree, verbose, workflow, wpc, devices, relationships,
                   log, calls, root, result, created, io_failed>>

\* delete_device_identity from the end of its second write_log to its return.
delete_device_identity_return(i) ==
    /\ wpc = "DeletingIdentities" /\ task[i].pc = "write2" /\ lock = i
    /\ \E w \in WriteOutcomes :
         IF w = "io_error"
         THEN /\ Release(Returned(i, "Err", "io"))
              /\ log' = log
         ELSE IF delete_succeeded(task[i].status, task[i].stderr)
         THEN /\ log' = PutAll(log, {Line("Successfully deleted", <<task[i].key>>, <<>>, <<>>)})
              /\ Release(Returned(i, "OkTrue", "none"))
         ELSE /\ log' = PutAll(log, {Line("Failed to delete", <<task[i].key>>,
                                          from_utf8_lossy(task[i].stdout),
                                          from_utf8_lossy(task[i].stderr))})
              /\ Release(Returned(i, "OkFalse", "none"))
    /\ UNCHANGED <<twin, tree, verbose, workflow, wpc, devices, relationships,
                   console, calls, registry, root, result, created, exited>>
    /\ io_failed' = (io_failed \/ task'[i].why = "io")

\* delete_devices: `.collect::<Result<Vec<_>>>()?` returns early, some future
\* returned Err.
DeleteCollectFails == \E i \in DOMAIN task : task[i].ret = "Err"

\* A count without the filter.
num_successes_unfiltered ==
    Cardinality({ i \in DOMAIN task : task[i].ret \in {"OkTrue", "OkFalse"} })

\* `.filter(|s| *s).count()` over the collected results.
num_successes == Cardinality({ i \in DOMAIN task : task[i].ret = "OkTrue" })

\* delete_devices from join_all being ready to its return.  The subtraction
\* `num_successes - devices_to_delete.len()` panics when it overflows in a
\* build with overflow checks and wraps in a build without them.
delete_devices_finish ==
    /\ wpc = "DeletingIdentities" /\ JoinReady /\ lock = 0
    /\ wpc' = "Done"
    /\ IF DeleteCollectFails
       THEN /\ result' = "Err"
            /\ UNCHANGED <<log, console>>
       ELSE IF num_successes = Len(devices)
       THEN LET line == Line("Deleted all devices.", <<>>, <<>>, <<>>)
            IN  /\ console' = PutAll(console, {line})
                /\ \E w \in WriteOutcomes :
                     IF w = "written"
                     THEN log' = PutAll(log, {line}) /\ result' = "Ok"
                     ELSE log' = log /\ result' = "Err"
       ELSE LET a == to_usize(num_successes)
                b == to_usize(Len(devices))
                line == Line("Successfully deleted devices, failed. For more information use the -v flag.",
                             <<a, wrapping_sub(a, b)>>, <<>>, <<>>)
            IN  \E overflow_checks \in BOOLEAN :
                  IF overflow_checks /\ sub_overflows(a, b)
                  THEN /\ result' = "Panic"
                       /\ UNCHANGED <<log, console>>
                  ELSE /\ console' = PutAll(console, {line})
                       /\ \E w \in WriteOutcomes :
                            IF w = "written"
                            THEN log' = PutAll(log, {line}) /\ result' = "Ok"
                            ELSE log' = log /\ result' = "Err"
    /\ UNCHANGED <<twin, tree, verbose, workflow, devices, relationships, task, lock,
                   calls, registry, root, created, exited>>
    /\ io_failed' = (io_failed \/ (result' = "Err" /\ ~DeleteCollectFails))

----------------------------------------------------------------------------
(* CertManager, as main drives it                                          *)

RootCertCall == [op |-> "root_cert", key |-> <<>>]

DeviceCertCall(id) == [op |-> "device_cert", key |-> <<id>>]

\* make_root_cert up to the create_dir_all().await of get_folder("certs").
make_root_cert_begin ==
    /\ workflow = "certs" /\ wpc = "Idle" /\ lock = 0
    /\ LET line == Line("Making Root CA.", <<>>, <<>>, <<>>)
       IN  /\ console' = PutAll(console, {line})
           /\ \E w \in WriteOutcomes :
                IF w = "written"
                THEN log' = PutAll(log, {line}) /\ wpc' = "RootFolder" /\ result' = result
                ELSE log' = log /\ wpc' = "Done" /\ result' = "Err"
    /\ UNCHANGED <<twin, tree, verbose, workflow, devices, relationships, task, lock,
                   calls, registry, root, created, exited>>
    /\ io_failed' = (io_failed \/ result' = "Err")

\* make_root_cert from the end of get_folder to the output().await of openssl.
make_root_cert_spawn ==
    /\ wpc = "RootFolder"
    /\ \E dir \in IoOutcomes, sp \in IoOutcomes :
         IF dir = "ok" /\ sp = "ok"
         THEN /\ calls' = calls (+) SetToBag({RootCertCall})
              /\ wpc' = "RootRunning"
              /\ result' = result
         ELSE /\ (dir = "io_error" => sp = "ok")
              /\ calls' = calls
              /\ wpc' = "Done"
              /\ result' = "Err"
    /\ UNCHANGED <<twin, tree, verbose, workflow, devices, relationships, task, lock,
                   log, console, registry, root, created, exited>>
    /\ io_failed' = (io_failed \/ result' = "Err")

\* make_root_cert from the exit of openssl to its return: the captured output
\* goes to print_verbose and the success line to print, whatever the status.
make_root_cert_exit ==
    /\ wpc = "RootRunning" /\ lock = 0
    /\ \E out \in CertOutcomes :
         LET shown == Line("{}{}", <<>>, from_utf8_lossy(out.stdout),
                           from_utf8_lossy(out.stderr))
             made  == Line("Successfully made Root CA.", <<>>, <<>>, <<>>)
         IN  /\ root' = out
             /\ exited' = exited \cup {[call |-> RootCertCall, status |-> out.status]}
             /\ \E w1 \in WriteOutcomes, w2 \in WriteOutcomes :
                  IF w1 = "io_error"
                  THEN /\ w2 = "written"
                       /\ console' = PutAll(console, VerbosePrintln(shown))
                       /\ log' = log
                       /\ wpc' = "Done" /\ result' = "Err"
                  ELSE IF w2 = "io_error"
                  THEN /\ console' = PutAll(PutAll(console, VerbosePrintln(shown)), {made})
                       /\ log' = PutAll(log, {shown})
                       /\ wpc' = "Done" /\ result' = "Err"
                  ELSE /\ console' = PutAll(PutAll(console, VerbosePrintln(shown)), {made})
                       /\ log' = PutAll(PutAll(log, {shown}), {made})
                       /\ wpc' = "RootDone" /\ result' = result
    /\ UNCHANGED <<twin, tree, verbose, workflow, devices, relationships, task, lock,
                   calls, registry, created>>
    /\ io_failed' = (io_failed \/ result' = "Err")

\* A main that starts the device certificates without waiting for
\* make_root_cert.
make_root_cert_returned_Ok_unawaited == wpc \in {"RootFolder", "RootRunning", "RootDone"}

\* main's `cert_manager.make_root_cert().await?` has let main go on:
\* make_root_cert has returned Ok.
make_root_cert_returned_Ok == wpc = "RootDone"

\* make_all_device_certs up to join_all's first poll of the cert futures.
make_all_device_certs_begin ==
    /\ make_root_cert_returned_Ok /\ lock = 0
    /\ devices' = flatten_devices(tree)
    /\ LET line == Line("Creating certs for devices", <<Len(devices')>>, <<>>, <<>>)
       IN  \E w \in WriteOutcomes :
             IF w = "written"
             THEN /\ log' = PutAll(log, {line})
                  /\ StartWave(devices')
                  /\ console' = PutAll(PutAll(console, {line}),
                        UNION { VerbosePrintln(Line("Making device CA for", <<devices'[i]>>, <<>>, <<>>))
                                : i \in 1 .. Len(devices') })
                  /\ wpc' = "MakingDeviceCerts"
                  /\ result' = result
             ELSE /\ console' = PutAll(console, {line})
                  /\ wpc' = "Done"
                  /\ result' = "Err"
                  /\ UNCHANGED <<log, task, lock>>
    /\ UNCHANGED <<twin, tree, verbose, workflow, relationships, calls,
                   registry, root, created, exited>>
    /\ io_failed' = (io_failed \/ result' = "Err")

\* make_device_cert from the end of its first write_log to the
\* create_dir_all().await of get_folder(device_id).
make_device_cert_folder(i) ==
    /\ wpc = "MakingDeviceCerts" /\ task[i].pc = "write1" /\ lock = i
    /\ \E w \in WriteOutcomes :
         IF w = "written"
         THEN /\ log' = PutAll(log, {Line("Making device CA for", <<task[i].key>>, <<>>, <<>>)})
              /\ Release([task EXCEPT ![i].pc = "folder"])
         ELSE /\ log' = log
              /\ Release(Returned(i, "Err", "io"))
    /\ UNCHANGED <<twin, tree, verbose, workflow, wpc, devices, relationships,
                   console, calls, registry, root, result, created, exited>>
    /\ io_failed' = (io_failed \/ task'[i].why = "io")

\* make_device_cert from the end of get_folder to the output().await of openssl.
make_device_cert_spawn(i) ==
    /\ wpc = "MakingDeviceCerts" /\ task[i].pc = "folder"
    /\ \E dir \in IoOutcomes, sp \in IoOutcomes :
         IF dir = "ok" /\ sp = "ok"
         THEN /\ calls' = calls (+) SetToBag({DeviceCertCall(task[i].key)})
              /\ task' = [task EXCEPT ![i].pc = "running"]
         ELSE /\ (dir = "io_error" => sp = "ok")
              /\ calls' = calls
              /\ task' = Returned(i, "Err", "io")
    /\ UNCHANGED <<twin, tree, verbose, workflow, wpc, devices, relationships, lock,
                   log, console, registry, root, result, created, exited>>
    /\ io_failed' = (io_failed \/ task'[i].why = "io")

\* make_device_cert from the exit of openssl to the lock().await of the
\* print_verbose of the captured output.
make_device_cert_exit(i) ==
    /\ wpc = "MakingDeviceCerts" /\ task[i].pc = "running"
    /\ \E out \in CertOutcomes :
         /\ exited' = exited \cup {[call |-> DeviceCertCall(task[i].key), status |-> out.status]}
         /\ Arrive([task EXCEPT ![i].pc = "lock2", ![i].status = out.status,
                                 ![i].stdout = out.stdout, ![i].stderr = out.stderr], i)
         /\ console' = PutAll(console, VerbosePrintln(
                Line("{}{}", <<>>, from_utf8_lossy(out.stdout),
                     from_utf8_lossy(out.stderr))))
    /\ UNCHANGED <<twin, tree, verbose, workflow, wpc, devices, relationships,
                   log, calls, registry, root, result, created, io_failed>>

\* make_device_cert from the end of its second write_log to the lock().await
\* of the print_verbose of "Successfully made CA".
make_device_cert_logged(i) ==
    /\ wpc = "MakingDeviceCerts" /\ task[i].pc = "write2" /\ lock = i
    /\ \E w \in WriteOutcomes :
         IF w = "written"
         THEN /\ log' = PutAll(log, {Line("{}{}", <<>>, from_utf8_lossy(task[i].stdout),
                                          from_utf8_lossy(task[i].stderr))})
              /\ console' = PutAll(console, VerbosePrintln(
                     Line("Successfully made CA", <<task[i].key>>, <<>>, <<>>)))
              /\ Release([task EXCEPT ![i].pc = "lock3"])
         ELSE /\ UNCHANGED <<log, console>>
              /\ Release(Returned(i, "Err", "io"))
    /\ UNCHANGED <<twin, tree, verbose, workflow, wpc, devices, relationships,
                   calls, registry, root, result, created, exited>>
    /\ io_failed' = (io_failed \/ task'[i].why = "io")

\* make_device_cert from the end of its third write_log to its return.
make_device_cert_return(i) ==
    /\ wpc = "MakingDeviceCerts" /\ task[i].pc = "write3" /\ lock = i
    /\ \E w \in WriteOutcomes :
         IF w = "written"
         THEN /\ log' = PutAll(log, {Line("Successfully made CA", <<task[i].key>>, <<>>, <<>>)})
              /\ Release(Returned(i, "Ok", "none"))
         ELSE /\ log' = log
              /\ Release(Returned(i, "Err", "io"))
    /\ UNCHANGED <<twin, tree, verbose, workflow, wpc, devices, relationships,
                   console, calls, registry, root, result, created, exited>>
    /\ io_failed' = (io_failed \/ task'[i].why = "io")

\* make_all_device_certs: `.collect::<Result<Vec<_>>>()?` returns early, some future
\* returned Err.
CertCollectFails == \E i \in DOMAIN task : task[i].ret = "Err"

\* make_all_device_certs from join_all being ready to its return, and with
\* it main's.
make_all_device_certs_finish ==
    /\ wpc = "MakingDeviceCerts" /\ JoinReady /\ lock = 0
    /\ wpc' = "Done"
    /\ IF CertCollectFails
       THEN /\ result' = "Err"
            /\ UNCHANGED <<log, console>>
       ELSE LET line == Line("Created all device certs.", <<>>, <<>>, <<>>)
            IN  /\ console' = PutAll(console, {line})
                /\ \E w \in WriteOutcomes :
                     IF w = "written"
                     THEN log' = PutAll(log, {line}) /\ result' = "Ok"
                     ELSE log' = log /\ result' = "Err"
    /\ UNCHANGED <<twin, tree, verbose, workflow, devices, relationships, task, lock,
                   calls, registry, root, created, exited>>
    /\ io_failed' = (io_failed \/ (result' = "Err" /\ ~CertCollectFails))

----------------------------------------------------------------------------
(* The tree walkers on their own                                           *)

\* flatten_devices applied to the configured tree.
walk_flatten ==
    /\ workflow = "walk" /\ wpc = "Idle"
    /\ devices' = flatten_devices(tree)
    /\ wpc' = "Flattened"
    /\ UNCHANGED <<twin, tree, verbose, workflow, relationships, task, lock, log,
                   console, calls, registry, root, result, created, exited, io_failed>>

\* get_relationships applied to the configured tree.
walk_relationships ==
    /\ workflow = "walk" /\ wpc = "Flattened"
    /\ relationships' = get_relationships(tree)
    /\ wpc' = "Done"
    /\ UNCHANGED <<twin, tree, verbose, workflow, devices, task, lock, log,
                   console, calls, registry, root, result, created, exited, io_failed>>

----------------------------------------------------------------------------
(* FileManager on its own: print and print_verbose, by verbosity           *)

\* fn write_log on the FileManager fm, w being the outcome of write_all.
write_log(fm, line, w) ==
    IF w = "written" THEN [fm EXCEPT !.log = PutAll(@, {line})] ELSE fm

\* fn print: println!, then write_log.
print(fm, line, w) ==
    write_log([fm EXCEPT !.console = PutAll(@, {line})], line, w)

\* A print_verbose that leaves the log alone when verbose is off.
print_verbose_skips_log(fm, line, w) ==
    IF fm.verbose THEN print(fm, line, w) ELSE fm

\* fn print_verbose: println! when self.verbose, then write_log.
print_verbose(fm, line, w) ==
    write_log([fm EXCEPT !.console = PutAll(@, IF fm.verbose THEN {line} ELSE {})],
              line, w)

\* The FileManager of the run, and the one made with the other verbosity.
FileManagers ==
    [own   |-> [verbose |-> verbose, console |-> console, log |-> log],
     other |-> [verbose |-> ~verbose, console |-> twin.console, log |-> twin.log]]

\* The texts handed to print and print_verbose.
LogLines ==
    { Line("Creating device", <<1>>, <<>>, <<>>),
      Line("Failed to create", <<1>>, <<>>, from_utf8_lossy(AzPrefix \o Newline)) }

\* Both FileManagers have become a and b by the call c.
Logged(a, b, c) ==
    /\ console' = a.console
    /\ log' = a.log
    /\ twin' = [console |-> b.console, log |-> b.log, calls |-> Append(twin.calls, c)]
    /\ UNCHANGED <<tree, verbose, workflow, wpc, devices, relationships, task,
                   lock, calls, registry, exited, created, io_failed, root, result>>

\* file_manager.print(line) on both FileManagers.
log_print ==
    /\ workflow = "log" /\ Len(twin.calls) < MaxLogCalls
    /\ \E line \in LogLines, w \in WriteOutcomes :
         Logged(print(FileManagers.own, line, w), print(FileManagers.other, line, w),
                [op |-> "print", line |-> line, w |-> w])

\* file_manager.print_verbose(line) on both FileManagers.
log_print_verbose ==
    /\ workflow = "log" /\ Len(twin.calls) < MaxLogCalls
    /\ \E line \in LogLines, w \in WriteOutcomes :
         Logged(print_verbose(FileManagers.own, line, w),
                print_verbose(FileManagers.other, line, w),
                [op |-> "print_verbose", line |-> line, w |-> w])

----------------------------------------------------------------------------
(* Specifications                                                          *)

RECURSIVE NodeIds(_)
\* The device ids configured in a tree.
NodeIds(device) ==
    {device.device_id} \cup
    UNION { NodeIds(device.children[i]) : i \in 1 .. Len(device.children) }

\* The state once main has read the configuration and made the FileManager.
Fresh ==
    /\ verbose \in BOOLEAN
    /\ wpc = "Idle"
    /\ devices = <<>>
    /\ relationships = <<>>
    /\ task = NoWave
    /\ lock = 0
    /\ log = EmptyBag
    /\ console = EmptyBag
    /\ calls = EmptyBag
    /\ exited = {}
    /\ io_failed = FALSE
    /\ created = <<>>
    /\ root = [status |-> "none", stdout |-> <<>>, stderr |-> <<>>]
    /\ result = "none"
    /\ twin = [console |-> EmptyBag, log |-> EmptyBag, calls |-> <<>>]

\* A run of one of the entry points; the hub holds the configured devices
\* when they are to be deleted and none of them otherwise.
Init ==
    /\ workflow \in {"create", "delete", "certs"}
    /\ tree \in IF workflow = "create" THEN RunTrees ELSE FlatRunTrees
    /\ registry = IF workflow = "delete" THEN NodeIds(tree) ELSE {}
    /\ Fresh

Next ==
    \/ create_devices_begin
    \/ create_devices_join
    \/ create_devices_finish
    \/ delete_devices_begin
    \/ delete_devices_finish
    \/ make_root_cert_begin
    \/ make_root_cert_spawn
    \/ make_root_cert_exit
    \/ make_all_device_certs_begin
    \/ make_all_device_certs_finish
    \/ \E i \in DOMAIN task :
         \/ create_device_identity_spawn(i)
         \/ create_device_identity_exit(i)
         \/ create_device_identity_return(i)
         \/ create_parent_child_relationship_spawn(i)
         \/ create_parent_child_relationship_exit(i)
         \/ create_parent_child_relationship_return(i)
         \/ delete_device_identity_spawn(i)
         \/ delete_device_identity_exit(i)
         \/ delete_device_identity_return(i)
         \/ make_device_cert_folder(i)
         \/ make_device_cert_spawn(i)
         \/ make_device_cert_exit(i)
         \/ make_device_cert_logged(i)
         \/ make_device_cert_return(i)

Spec == Init /\ [][Next]_vars

\* The steps the program takes by itself: everything but the exit of an
\* external command.
Progress ==
    \/ create_devices_begin
    \/ create_devices_join
    \/ create_devices_finish
    \/ delete_devices_begin
    \/ delete_devices_finish
    \/ make_root_cert_begin
    \/ make_root_cert_spawn
    \/ make_all_device_certs_begin
    \/ make_all_device_certs_finish
    \/ \E i \in DOMAIN task :
         \/ create_device_identity_spawn(i)
         \/ create_device_identity_return(i)
         \/ create_parent_child_relationship_spawn(i)
         \/ create_parent_child_relationship_return(i)
         \/ delete_device_identity_spawn(i)
         \/ delete_device_identity_return(i)
         \/ make_device_cert_folder(i)
         \/ make_device_cert_spawn(i)
         \/ make_device_cert_logged(i)
         \/ make_device_cert_return(i)

\* The runs of Spec in which the runtime keeps polling: a future that can
\* take a step of its own eventually takes one.  When an external command
\* exits, and whether it does, is left to the command.
FairSpec == Init /\ [][Next]_vars /\ WF_vars(Progress)

\* The walkers applied to every tree of up to MaxWalkNodes nodes.
InitWalk ==
    /\ tree \in WalkTrees
    /\ workflow = "walk"
    /\ registry = {}
    /\ Fresh

NextWalk == walk_flatten \/ walk_relationships

SpecWalk == InitWalk /\ [][NextWalk]_vars

\* A sequence of print and print_verbose calls on two FileManagers that
\* differ in verbosity alone.
InitLog ==
    /\ tree \in ShapesOn(1, 1)
    /\ workflow = "log"
    /\ registry = {}
    /\ Fresh

NextLog == log_print \/ log_print_verbose

SpecLog == InitLog /\ [][NextLog]_vars

----------------------------------------------------------------------------
(* Properties                                                              *)

\* C1 (fail-fast gate of create_devices): once a create-identity future has
\* returned an error (non-zero exit, spawn or log I/O error, unparsable
\* payload), no parent-link call has been issued and the workflow is not
\* linking, at any point of the run.
C1_FailFastGate ==
    LET failed ==
            \/ wpc = "CreatingIdentities" /\ \E i \in DOMAIN task : task[i].ret = "Err"
            \/ \E i \in DOMAIN created : created[i].ret = "Err"
    IN  (workflow = "create" /\ failed) =>
            /\ \A c \in BagToSet(calls) : c.op # "link"
            /\ wpc # "LinkingParents"

\* C1 witness: create_devices has returned after a wave in which one
\* create-identity call failed on its exit status and another succeeded.
C1_Witness ==
    /\ workflow = "create" /\ wpc = "Done"
    /\ \E i \in DOMAIN created : created[i].ret = "Err" /\ created[i].why = "exit"
    /\ \E i \in DOMAIN created : created[i].ret = "Ok"

\* C2 (phase barrier of create_devices): whenever a parent-link call has been
\* issued, the join over the create futures has produced a result for every
\* device, and every create-identity command that was spawned has exited.
C2_PhaseBarrier ==
    (\E c \in BagToSet(calls) : c.op = "link") =>
        /\ Len(created) = Cardinality(NodeIds(tree))
        /\ \A c \in BagToSet(calls) :
             c.op = "create" => \E e \in exited : e.call = c

\* C2 witness: two parent-link calls are in flight at once.
C2_Witness ==
    /\ wpc = "LinkingParents"
    /\ \E i, j \in DOMAIN task :
         i # j /\ task[i].pc = "running" /\ task[j].pc = "running"

\* C3 as stated (fan-out count), taken over the runs that meet no I/O error:
\* a finished create workflow has issued N create-identity and N-1
\* parent-link calls, a finished delete workflow N delete-identity calls, a
\* finished make_all_device_certs N device-certificate calls, each once per
\* device id (or edge).
C3_FanOutCountAsStated ==
    LET n == Cardinality(NodeIds(tree))
        of(op) == { c \in BagToSet(calls) : c.op = op }
    IN  (wpc = "Done" /\ ~io_failed) =>
            /\ \A c \in BagToSet(calls) : CopiesIn(c, calls) = 1
            /\ workflow = "create" =>
                 Cardinality(of("create")) = n /\ Cardinality(of("link")) = n - 1
            /\ workflow = "delete" => Cardinality(of("delete")) = n
            /\ workflow = "certs" => Cardinality(of("device_cert")) = n

\* C3 amended: no call is ever issued twice nor for an id outside the tree;
\* and a finished run in which no log write, directory creation or spawn
\* returned an I/O error has issued N create-identity calls followed by N-1
\* parent-link calls when every create succeeded and by none otherwise, N
\* delete-identity calls, or N device-certificate calls.
C3_FanOutCount ==
    LET ids == NodeIds(tree)
        n == Cardinality(ids)
        of(op) == { c \in BagToSet(calls) : c.op = op }
    IN  /\ \A c \in BagToSet(calls) :
             /\ CopiesIn(c, calls) = 1
             /\ \A k \in 1 .. Len(c.key) : c.key[k] \in ids
        /\ (wpc = "Done" /\ ~io_failed) =>
             /\ workflow = "create" =>
                  /\ { c.key : c \in of("create") } = { <<d>> : d \in ids }
                  /\ Cardinality(of("link")) =
                        IF \A i \in DOMAIN created : created[i].ret = "Ok"
                        THEN n - 1 ELSE 0
             /\ workflow = "delete" =>
                  { c.key : c \in of("delete") } = { <<d>> : d \in ids }
             /\ workflow = "certs" =>
                  { c.key : c \in of("device_cert") } = { <<d>> : d \in ids }

\* C3 witness: create_devices has returned Ok on a tree of three nodes.
C3_Witness ==
    /\ workflow = "create" /\ wpc = "Done" /\ result = "Ok"
    /\ Len(devices) = 3
    /\ Cardinality({ c \in BagToSet(calls) : c.op = "link" }) = 2

\* C4 as stated (delete never aborts): a delete workflow whose calls all
\* exited (with whatever status and diagnostic) and that met no I/O error
\* returns Ok, having printed either summary line.
C4_DeleteNeverAborts ==
    (workflow = "delete" /\ wpc = "Done" /\ ~io_failed) =>
        /\ result = "Ok"
        /\ \E l \in BagToSet(console) :
             l.text \in {"Deleted all devices.",
                         "Successfully deleted devices, failed. For more information use the -v flag."}

\* C5 (idempotent delete classification): a delete_device_identity future
\* that returns without a log I/O error returns Ok(true) exactly when its
\* command exited with success or with the not-found marker in stderr, and
\* Ok(false) otherwise.  (Of the stderr texts az can leave here, one carries
\* "ErrorCode:DeviceNotFound;" whole.)
C5_DeleteClassification ==
    [][\A i \in DOMAIN task :
         (/\ wpc = "DeletingIdentities"
          /\ task[i].pc = "write2"
          /\ task'[i].pc = "done"
          /\ task'[i].why # "io")
         => /\ task'[i].ret \in {"OkTrue", "OkFalse"}
            /\ (task'[i].ret = "OkTrue") <=>
                  (\/ task[i].status = "success"
                   \/ task[i].stderr = AzPrefix \o DeviceNotFound \o Newline)]_vars

\* C5 witness: a delete call that exited with a failure status has been
\* classified as a success.
C5_Witness ==
    /\ workflow = "delete"
    /\ \E i \in DOMAIN task :
         /\ task[i].ret = "OkTrue"
         /\ [call |-> DeleteCall(task[i].key), status |-> "failure"] \in exited

\* C6 (partial-success counting): the summary delete_devices prints reports
\* as many successes as there are futures that returned Ok(true), out of one
\* future per device: the partial line carries that count, and the
\* "Deleted all devices." line is printed only when it equals the number of
\* devices.
C6_PartialSuccessCount ==
    LET classified == Cardinality({ i \in DOMAIN task : task[i].ret = "OkTrue" })
    IN  \A l \in BagToSet(console) :
          /\ l.text = "Successfully deleted devices, failed. For more information use the -v flag."
               => /\ l.key[1] = to_usize(classified)
                  /\ Len(task) = Cardinality(NodeIds(tree))
                  /\ classified < Len(task)
          /\ l.text = "Deleted all devices."
               => classified = Cardinality(NodeIds(tree))

\* C6 witness: over three devices one delete failed outright and one failed
\* with the not-found marker; the summary reports 2 successes.
C6_Witness ==
    /\ workflow = "delete" /\ wpc = "Done" /\ Len(task) = 3
    /\ Cardinality({ i \in DOMAIN task : task[i].ret = "OkFalse" }) = 1
    /\ \E i \in DOMAIN task :
         /\ task[i].ret = "OkTrue"
         /\ [call |-> DeleteCall(task[i].key), status |-> "failure"] \in exited
    /\ \E l \in BagToSet(console) :
         /\ l.text = "Successfully deleted devices, failed. For more information use the -v flag."
         /\ l.key[1] = to_usize(2)

\* C7 (tree walker shape): on a tree with unique ids flatten_devices lists
\* every node once, the root first; get_relationships returns one pair fewer
\* than there are nodes; both ids of a pair are in the list, the parent
\* before the child.
C7_WalkerShape ==
    LET pos(d) == CHOOSE k \in 1 .. Len(devices) : devices[k] = d
    IN  (workflow = "walk" /\ wpc = "Done") =>
            /\ Len(devices) = Cardinality(NodeIds(tree))
            /\ { devices[k] : k \in 1 .. Len(devices) } = NodeIds(tree)
            /\ devices[1] = tree.device_id
            /\ Len(relationships) = Len(devices) - 1
            /\ \A k \in 1 .. Len(relationships) :
                 /\ relationships[k][1] \in NodeIds(tree)
                 /\ relationships[k][2] \in NodeIds(tree)
                 /\ pos(relationships[k][1]) < pos(relationships[k][2])

\* C7 witness: both walkers have run on a tree of four nodes and three levels
\* whose root does not carry the smallest id.
C7_Witness ==
    /\ workflow = "walk" /\ wpc = "Done"
    /\ Len(devices) = 4
    /\ tree.device_id # 1
    /\ \E k \in 1 .. Len(relationships) : relationships[k][1] # tree.device_id

\* C8 as stated (root certificate failure): once openssl has exited with a
\* failure status for the root certificate, the run has ended in an error:
\* the success line is not printed and no device certificate is attempted.
C8_RootCertFailureFails ==
    root.status = "failure" =>
        /\ wpc = "Done" /\ result = "Err"
        /\ \A l \in BagToSet(console) : l.text # "Successfully made Root CA."
        /\ \A c \in BagToSet(calls) : c.op # "device_cert"

\* C9 as stated (device certificate aggregation): "Created all device certs."
\* is printed, and Ok returned, only if every device's openssl call exited
\* with success.
C9_AllCertsOnlyIfAllSucceeded ==
    (\/ \E l \in BagToSet(console) : l.text = "Created all device certs."
     \/ workflow = "certs" /\ result = "Ok")
    => \A e \in exited : e.call.op = "device_cert" => e.status = "success"

\* C10 (no rollback on link failure): in a create run whose identities were
\* all created and in which a parent-link call exited with a failure status,
\* only create and link commands are ever issued, every identity of the tree
\* stays in the hub, and create_devices returns an error.
C10_NoRollback ==
    (/\ workflow = "create"
     /\ \E e \in exited : e.call.op = "link" /\ e.status = "failure")
    => /\ \A i \in DOMAIN created : created[i].ret = "Ok"
       /\ \A c \in BagToSet(calls) : c.op \in {"create", "link"}
       /\ NodeIds(tree) \subseteq registry
       /\ wpc = "Done" => result = "Err"

\* C10 witness: create_devices has returned an error after one parent-link
\* call failed and another succeeded, with the identities still in the hub.
C10_Witness ==
    /\ workflow = "create" /\ wpc = "Done" /\ result = "Err"
    /\ \E e \in exited : e.call.op = "link" /\ e.status = "failure"
    /\ \E e \in exited : e.call.op = "link" /\ e.status = "success"
    /\ registry = NodeIds(tree)

\* The second wave of create_devices has been started: its announcement is
\* in the log.
LinkWaveStarted ==
    \E l \in BagToSet(log) :
        l.text = "Created all devices. Adding parent-child relationships."

\* The external command future i of the wave being joined issues.
WaveCall(i) ==
    CASE workflow = "create" /\ ~LinkWaveStarted -> CreateCall(task[i].key)
      [] workflow = "create" /\ LinkWaveStarted  -> LinkCall(task[i].key)
      [] workflow = "delete"                  -> DeleteCall(task[i].key)
      [] workflow = "certs"                   -> DeviceCertCall(task[i].key)

\* C11 (no sibling cancellation): once a workflow has reported its result
\* after starting a wave, the wave held one future per device (or edge), every
\* future of it has returned, and every future that did not itself meet an
\* I/O error has issued its command and seen it exit - whether or not a
\* sibling failed.  The same holds of the create wave once linking started.
C11_NoSiblingCancellation ==
    /\ (wpc = "Done" /\ task # NoWave) =>
          /\ Len(task) = IF workflow = "create" /\ LinkWaveStarted
                         THEN Len(relationships) ELSE Len(devices)
          /\ \A i \in DOMAIN task :
                /\ task[i].pc = "done"
                /\ task[i].why # "io" =>
                     /\ CopiesIn(WaveCall(i), calls) = 1
                     /\ \E e \in exited : e.call = WaveCall(i)
    /\ (workflow = "create" /\ created # <<>>) =>
          /\ Len(created) = Len(devices)
          /\ \A i \in DOMAIN created :
                created[i].why # "io" =>
                  \E e \in exited : e.call = CreateCall(created[i].key)

\* C11 witness: a create wave over three devices has been joined in which one
\* call exited with a failure status, one returned an unparsable payload and
\* one succeeded; all three commands were issued and exited.
C11_Witness ==
    /\ workflow = "create" /\ wpc = "Done" /\ Len(created) = 3
    /\ \E i \in DOMAIN created : created[i].why = "exit"
    /\ \E i \in DOMAIN created : created[i].why = "parse"
    /\ \E i \in DOMAIN created : created[i].ret = "Ok"
    /\ Cardinality({ e \in exited : e.call.op = "create" }) >= 3

\* C12 (log mutual exclusion): at most one future of a wave is between the
\* return of write_log's lock().await and the end of its write_all; that
\* future is the holder of the mutex, and the mutex is held by no one else.
C12_LogMutualExclusion ==
    LET writing == { i \in DOMAIN task : task[i].pc \in {"write1", "write2", "write3"} }
    IN  /\ Cardinality(writing) <= 1
        /\ \A i \in writing : lock = i
        /\ lock # 0 => lock \in writing

\* C12 witness: one future is inside write_all while a sibling that has
\* its command's output to log, and another that has not started, wait for
\* the mutex.
C12_Witness ==
    \E i, j, k \in DOMAIN task :
        /\ task[i].pc = "write2"
        /\ task[j].pc = "lock2"
        /\ task[k].pc = "lock1"

\* The wording of the lines the workflows print with print: the phase
\* announcements and summaries.
C13_SummaryTexts ==
    {"Creating devices in hub",
     "Created all devices. Adding parent-child relationships.",
     "Deleting devices from hub", "Deleted all devices.",
     "Successfully deleted devices, failed. For more information use the -v flag.",
     "Making Root CA.", "Successfully made Root CA.",
     "Creating certs for devices", "Created all device certs."}

\* The wording of the diagnostics of a failed call.
C13_FailTexts ==
    {"Failed to create", "Failed to add as child of parent", "Failed to delete"}

\* C13 as stated (failure visibility at default verbosity): with verbose mode
\* off, the console shows the diagnostic of every call that failed (a create
\* or link call that exited with a failure status, a delete call classified
\* as failed, a certificate call that exited with a failure status) and no
\* per-call success line.
C13_FailureVisibleAsStated ==
    ~verbose =>
        /\ \A e \in exited :
              (e.status = "failure" /\ e.call.op \in {"create", "link"}) =>
                \E l \in BagToSet(console) :
                    l.key = e.call.key /\ l.text \in C13_FailTexts
        /\ \A i \in DOMAIN task :
              task[i].ret = "OkFalse" =>
                \E l \in BagToSet(console) :
                    l.key = <<task[i].key>> /\ l.text = "Failed to delete"
        /\ \A e \in exited :
              (e.status = "failure" /\ e.call.op \in {"root_cert", "device_cert"}) =>
                \E l \in BagToSet(console) : l.text = "{}{}" /\ l.stderr # <<>>
        /\ \A l \in BagToSet(console) :
              l.text \in C13_SummaryTexts \cup C13_FailTexts \cup {"{}{}"}

\* C13 amended: with verbose mode off the console shows phase announcements
\* and summaries only - no per-call line, be it a success line or the
\* diagnostic of a failed call.  At either verbosity a call's result line is
\* on the console exactly when verbose mode is on, and the diagnostic of a
\* failed create, link or delete call is in the log once its future has
\* returned without a log I/O error.
C13_FailureVisibility ==
    /\ ~verbose => \A l \in BagToSet(console) : l.text \in C13_SummaryTexts
    /\ \A e \in exited :
          verbose <=>
            \E l \in BagToSet(console) :
                /\ l.text \notin C13_SummaryTexts
                /\ \/ l.key = e.call.key /\ l.text # "{}{}"
                   \/ l.text = "{}{}" /\ e.call.op \in {"root_cert", "device_cert"}
    /\ \A i \in DOMAIN task :
          (/\ workflow \in {"create", "delete"}
           /\ task[i].pc = "done"
           /\ task[i].why = "exit" \/ task[i].ret = "OkFalse")
          => \E l \in BagToSet(log) :
                /\ l.text \in C13_FailTexts
                /\ l.key = WaveCall(i).key
                /\ l.stderr # <<>>

\* C13 witness: a delete run with verbose mode off has ended with the partial
\* summary on the console after a call failed for good.
C13_Witness ==
    /\ ~verbose /\ workflow = "delete" /\ wpc = "Done"
    /\ \E i \in DOMAIN task : task[i].ret = "OkFalse"
    /\ \E l \in BagToSet(console) :
         l.text = "Successfully deleted devices, failed. For more information use the -v flag."

\* C14 (log channel routing), for every sequence of print and print_verbose
\* calls made on two FileManagers that differ in verbosity alone: the
\* console of each has every printed text and, when it is verbose, every
\* print_verbose text, and nothing else; the log of each has the text of
\* every call whose write succeeded; so the two logs are the same.
C14_LogChannelRouting ==
    LET made == twin.calls
        count(line, shown(_)) ==
            Cardinality({ k \in DOMAIN made : made[k].line = line /\ shown(made[k]) })
        printed(v, c) == c.op = "print" \/ v
        own_shown(c) == printed(verbose, c)
        other_shown(c) == printed(~verbose, c)
        written(c) == c.w = "written"
    IN  workflow = "log" =>
          /\ BagToSet(console) \cup BagToSet(twin.console) \subseteq LogLines
          /\ BagToSet(log) \cup BagToSet(twin.log) \subseteq LogLines
          /\ \A line \in LogLines :
                /\ CopiesIn(line, console) = count(line, own_shown)
                /\ CopiesIn(line, twin.console) = count(line, other_shown)
                /\ CopiesIn(line, log) = count(line, written)
                /\ CopiesIn(line, twin.log) = count(line, written)
          /\ log = twin.log

\* C14 witness: after a print and two print_verbose calls, one of whose log
\* writes failed, the two consoles differ.
C14_Witness ==
    /\ workflow = "log" /\ Len(twin.calls) = 3
    /\ \E k \in DOMAIN twin.calls : twin.calls[k].op = "print"
    /\ \E k \in DOMAIN twin.calls :
         twin.calls[k].op = "print_verbose" /\ twin.calls[k].w = "written"
    /\ \E k \in DOMAIN twin.calls :
         twin.calls[k].op = "print_verbose" /\ twin.calls[k].w = "io_error"
    /\ console # twin.console
    /\ log # EmptyBag

\* C15 as stated (per-call logging): every future of a wave that gets past
\* the log write that follows the exit of its command has appended a line
\* carrying the whole captured stdout and stderr of that command, whatever
\* the command's outcome.
C15_PerCallLoggingAsStated ==
    [][\A i \in DOMAIN task :
         (/\ task[i].pc = "write2"
          /\ task'[i].pc \in {"done", "lock3", "write3"}
          /\ task'[i].why # "io")
         => \E l \in BagToSet(log') :
               /\ CopiesIn(l, log') = CopiesIn(l, log) + 1
               /\ l.stdout = from_utf8_lossy(task[i].stdout)
               /\ l.stderr = from_utf8_lossy(task[i].stderr)]_vars

\* C15 amended: the log write that follows the exit of a command appends
\* exactly one line.  For a certificate call (device or root) it is the
\* captured stdout and stderr, whatever the exit status; for a create, link
\* or delete call found to have failed it is the "Failed to ..." line with
\* the captured stdout and stderr; for a create, link or delete call found to
\* have succeeded it is the "Successfully ..." line naming the device or
\* edge, without the captured output.  (Captured bytes are decoded with
\* from_utf8_lossy.)
C15_PerCallLogging ==
    [][LET gains(l) == /\ CopiesIn(l, log') = CopiesIn(l, log) + 1
                       /\ BagCardinality(log') = BagCardinality(log) + 1
       IN  /\ \A i \in DOMAIN task :
                (/\ task[i].pc = "write2"
                 /\ task'[i].pc \in {"done", "lock3", "write3"}
                 /\ task'[i].why # "io")
                => LET out == [stdout |-> from_utf8_lossy(task[i].stdout),
                               stderr |-> from_utf8_lossy(task[i].stderr)]
                       key == WaveCall(i).key
                   IN  IF wpc = "MakingDeviceCerts"
                       THEN gains([text |-> "{}{}", key |-> <<>>,
                                   stdout |-> out.stdout, stderr |-> out.stderr])
                       ELSE IF task'[i].why = "exit" \/ task'[i].ret = "OkFalse"
                       THEN \E t \in {"Failed to create", "Failed to add as child of parent",
                                      "Failed to delete"} :
                              gains([text |-> t, key |-> key,
                                     stdout |-> out.stdout, stderr |-> out.stderr])
                       ELSE \E t \in {"Successfully created",
                                      "Successfully added as child of parent",
                                      "Successfully deleted"} :
                              gains([text |-> t, key |-> key,
                                     stdout |-> <<>>, stderr |-> <<>>])
           /\ (wpc = "RootRunning" /\ wpc' = "RootDone") =>
                CopiesIn([text |-> "{}{}", key |-> <<>>,
                          stdout |-> from_utf8_lossy(root'.stdout),
                          stderr |-> from_utf8_lossy(root'.stderr)], log') = 1]_vars

\* C15 witness: the log holds the diagnostic of a failed delete whose stderr
\* was not valid UTF-8, the success line of a sibling, and nothing is left to
\* log.
C15_Witness ==
    /\ workflow = "delete" /\ wpc = "Done"
    /\ \E l \in BagToSet(log) :
         /\ l.text = "Failed to delete"
         /\ \E k \in DOMAIN l.stderr : l.stderr[k] = 65533
    /\ \E l \in BagToSet(log) : l.text = "Successfully deleted"

RECURSIVE C16_PreOrder(_, _)
\* The reference pre-order traversal, with an explicit stack of the subtrees
\* still to visit: the top of the stack is emitted and replaced by its
\* children, first child on top.
C16_PreOrder(stack, out) ==
    IF stack = <<>> THEN out
    ELSE C16_PreOrder(Head(stack).children \o Tail(stack),
                      Append(out, Head(stack).device_id))

RECURSIVE C16_Edges(_)
\* The (parent, child) pairs of the trees on a stack.
C16_Edges(stack) ==
    IF stack = <<>> THEN {}
    ELSE LET n == Head(stack)
         IN  { <<n.device_id, n.children[k].device_id>> : k \in DOMAIN n.children }
               \cup C16_Edges(n.children \o Tail(stack))

\* root{A{C}, B} with the given ids.
C16_Example(root_id, a, c, b) ==
    [device_id |-> root_id,
     children |-> << [device_id |-> a,
                      children |-> << [device_id |-> c, children |-> <<>>] >>],
                     [device_id |-> b, children |-> <<>>] >>]

\* C16 (pre-order agreement of the two walkers): on every tree
\* flatten_devices is the reference pre-order traversal; the child ids of
\* get_relationships, in order, are flatten_devices without the root, and its
\* pairs are the tree's parent-child pairs; for root{A{C},B} the walkers give
\* [root, A, C, B] and [(root,A), (A,C), (root,B)].
C16_PreOrderAgreement ==
    (workflow = "walk" /\ wpc = "Done") =>
        /\ devices = C16_PreOrder(<<tree>>, <<>>)
        /\ [k \in DOMAIN relationships |-> relationships[k][2]] = Tail(devices)
        /\ { relationships[k] : k \in DOMAIN relationships } = C16_Edges(<<tree>>)
        /\ \A r, a, c, b \in 1 .. 4 :
              tree = C16_Example(r, a, c, b) =>
                /\ devices = <<r, a, c, b>>
                /\ relationships = << <<r, a>>, <<a, c>>, <<r, b>> >>

\* C16 witness: both walkers have run on root{A{C},B}, the ids not being in
\* traversal order.
C16_Witness ==
    /\ workflow = "walk" /\ wpc = "Done"
    /\ tree = C16_Example(3, 1, 4, 2)
    /\ devices = <<3, 1, 4, 2>>

\* C17 (payload parse failure is a create failure): a create_device_identity
\* future whose command exited with success and printed a payload cut short
\* returns an error; and once the create wave holds such a result,
\* create_devices has returned an error, has not started the link wave and no
\* parent-link call has been issued.
C17_ParseFailureIsCreateFailure ==
    [][/\ \A i \in DOMAIN task :
             (/\ wpc = "CreatingIdentities"
              /\ task[i].pc = "write2"
              /\ task[i].status = "success"
              /\ task[i].stdout = PayloadOpen \o <<IdByte(task[i].key)>>
              /\ task'[i].pc = "done")
             => /\ task'[i].ret = "Err"
                /\ task'[i].why \in {"parse", "io"}
       /\ ((\E i \in DOMAIN created : created[i].why = "parse") =>
              /\ wpc = "Done" /\ result = "Err"
              /\ ~LinkWaveStarted
              /\ \A c \in BagToSet(calls) : c.op # "link")']_vars

\* C17 witness: on a tree with edges every create command exited with
\* success, one payload did not parse, and create_devices has returned.
C17_Witness ==
    /\ workflow = "create" /\ wpc = "Done" /\ Len(created) = 3
    /\ \E i \in DOMAIN created : created[i].why = "parse"
    /\ \A i \in DOMAIN created : created[i].why \in {"parse", "none"}
    /\ \A e \in exited : e.status = "success"
    /\ registry = NodeIds(tree)

\* C18 as stated (failed-count arithmetic of the delete summary): when
\* delete_devices has finished after every future returned a classification
\* and fewer than all were successes, the subtraction has not trapped, and the
\* partial line is on the console with a failed count of attempted minus
\* successes, a number in 1 .. attempted.
C18_FailedCountNeverUnderflows ==
    LET attempted == Len(devices)
        successes == Cardinality({ i \in DOMAIN task : task[i].ret = "OkTrue" })
        partial == { l \in BagToSet(console) :
                       l.text = "Successfully deleted devices, failed. For more information use the -v flag." }
    IN  (/\ workflow = "delete" /\ wpc = "Done"
         /\ task # NoWave
         /\ \A i \in DOMAIN task : task[i].ret \in {"OkTrue", "OkFalse"}
         /\ successes < attempted)
        => /\ result # "Panic"
           /\ partial # {}
           /\ \A l \in partial :
                 /\ attempted - successes \in 1 .. attempted
                 /\ l.key[2] = to_usize(attempted - successes)

\* No external command is running.
C19_NoCallRunning ==
    /\ wpc # "RootRunning"
    /\ \A i \in DOMAIN task : task[i].pc # "running"

\* The command of future i of the wave of the given phase is running.
C19_Running(phase, i) ==
    wpc = phase /\ i \in DOMAIN task /\ task[i].pc = "running"

\* C19 as stated (termination and hang propagation), under fair scheduling:
\* if every external command eventually exits, the entry point eventually
\* reaches Done having returned a result; and if the command of a future of
\* a wave never exits, the workflow never returns, never reaches Done and,
\* in create_devices, never starts linking.
C19_TerminationAndHang ==
    /\ ([]<>C19_NoCallRunning) => <>(wpc = "Done" /\ result \in {"Ok", "Err"})
    /\ \A i \in 1 .. MaxNodes :
         \A phase \in {"CreatingIdentities", "LinkingParents", "DeletingIdentities",
                        "MakingDeviceCerts"} :
            (<>[]C19_Running(phase, i)) =>
                [](/\ result = "none"
                   /\ wpc # "Done"
                   /\ phase = "CreatingIdentities" => wpc # "LinkingParents")

\* C20 (root before devices in main's run): whenever a device certificate
\* call has been issued, or the device wave is being joined, the root
\* certificate call was issued once and has exited and make_root_cert has
\* returned Ok (its closing print was logged); and a run that ended without
\* make_root_cert returning Ok ended in an error with no device certificate
\* call issued and no device future made.
C20_RootBeforeDevices ==
    LET root_made == \E l \in BagToSet(log) : l.text = "Successfully made Root CA."
        device_calls == { c \in BagToSet(calls) : c.op = "device_cert" }
    IN  /\ (device_calls # {} \/ wpc = "MakingDeviceCerts") =>
              /\ CopiesIn(RootCertCall, calls) = 1
              /\ \E e \in exited : e.call = RootCertCall
              /\ root.status # "none"
              /\ root_made
        /\ (workflow = "certs" /\ wpc = "Done" /\ ~root_made) =>
              /\ result = "Err"
              /\ device_calls = {}
              /\ task = NoWave

\* C20 witness: two device certificate calls are running after the root
\* certificate call exited with success.
C20_Witness ==
    /\ wpc = "MakingDeviceCerts" /\ root.status = "success"
    /\ \E i, j \in DOMAIN task :
         i # j /\ task[i].pc = "running" /\ task[j].pc = "running"

====
